---- MODULE Spec2Model ----
(***************************************************************************)
(* A model of fancyquota.py: quota_main and the functions it calls         *)
(* (read_mounts, map_fs, run_quota, print_quota, nfs_lustre_quota,         *)
(* nfs_proj_quota).  Strings that the code takes apart (device names,      *)
(* mount points, file system types) are sequences of one-character         *)
(* strings, so that os.path.dirname, os.path.join, the substring test      *)
(* "ld in mp" and the slice fstype[:3] are computed as Python computes     *)
(* them.  A Python dict is a sequence of <<key, value>> pairs in insertion *)
(* order.  An uncaught exception ends the run: pc = "raised", exc names    *)
(* it.                                                                     *)
(***************************************************************************)
EXTENDS Integers, Sequences, FiniteSets, TLC

\* ------------------------------------------------------------- bounds
\* The number of distinct devices read from /proc/self/mounts.
MaxMounts == 2
\* The number of header and row lines read from the quota command.
MaxLines == 3

\* ------------------------------------------------------ strings, dicts
Max(S) == CHOOSE x \in S : \A y \in S : y <= x

\* The positions of "/" in p.
Slashes(p) == {i \in 1..Len(p) : p[i] = "/"}

\* The positions of p that hold something else than "/".
NonSlashes(p) == {i \in 1..Len(p) : p[i] # "/"}

\* os.path.dirname(p): everything up to the last "/", with the trailing
\* slashes stripped unless the head is slashes only.
dirname(p) ==
    LET i == IF Slashes(p) = {} THEN 0 ELSE Max(Slashes(p))
        head == SubSeq(p, 1, i)
    IN  IF NonSlashes(head) # {} THEN SubSeq(head, 1, Max(NonSlashes(head)))
        ELSE head

\* os.path.join(a, b) for two components.
join(a, b) ==
    IF b # <<>> /\ b[1] = "/" THEN b
    ELSE IF a = <<>> \/ a[Len(a)] = "/" THEN a \o b
    ELSE a \o <<"/">> \o b

\* The Python test "ld in mp" on strings: ld is a substring of mp.
Contains(ld, mp) ==
    \E i \in 0..(Len(mp) - Len(ld)) : SubSeq(mp, i + 1, i + Len(ld)) = ld

\* The Python slice s[:3].
Prefix3(s) == SubSeq(s, 1, IF Len(s) < 3 THEN Len(s) ELSE 3)

\* dict: k in d
Has(d, k) == \E i \in 1..Len(d) : d[i][1] = k

\* dict: d[k], for a key of d
Get(d, k) == d[CHOOSE i \in 1..Len(d) : d[i][1] = k][2]

\* dict: d[k] = v; an existing key keeps its place, a new one goes last.
Put(d, k, v) ==
    IF Has(d, k) THEN [i \in 1..Len(d) |-> IF d[i][1] = k THEN <<k, v>> ELSE d[i]]
    ELSE Append(d, <<k, v>>)

\* dict: the set of keys
KeySet(d) == {d[i][1] : i \in 1..Len(d)}

\* dict: the entries of d whose key is in keep, in d's order
Restrict(d, keep) == SelectSeq(d, LAMBDA e : e[1] \in keep)

\* ----------------------------------------------------- the inputs drawn
\* The login name the environment gives.
UserA == <<"a">>
LogNames == {UserA}

\* Devices: two automounted NFS homes, one NFS work area, a local disk,
\* and an identifier no mount line names.
DevA == <<"s", ":", "/", "h", "/", "a">>
DevB == <<"s", ":", "/", "h", "/", "b">>
DevW == <<"s", ":", "/", "w">>
DevS == <<"/", "d", "/", "s">>
DevX == <<"/", "d", "/", "x">>

MpA == <<"/", "h", "/", "a">>
MpB == <<"/", "h", "/", "b">>
MpW == <<"/", "w">>
MpV == <<"/", "v">>

Nfs == <<"n", "f", "s", "4">>
Ext4 == <<"e", "x", "t", "4">>

\* The lines /proc/self/mounts may hold, split: <<device, mountpoint, fstype>>.
\* The work area may be mounted a second time, on another mount point.
MountLines ==
    { <<DevA, MpA, Nfs>>, <<DevB, MpB, Nfs>>, <<DevW, MpW, Nfs>>, <<DevS, MpV, Ext4>>,
      <<DevW, MpV, Nfs>> }

\* [lquotagw] dirs of the configuration file.
GwDir == <<"/", "h">>
LquotaDirs == { <<>>, <<GwDir>> }

\* [filter] groups of the configuration file.
FilterGroups == { <<>>, <<"g1">> }

\* A numeric token of a quota row: its digits' value and whether a "*"
\* follows them.
Tok(n, star) == [n |-> n, star |-> star]

\* The number tokens that follow the file system name on a row line:
\* over quota with a grace time, no quota set, and a row without grace.
RowOver == << Tok(3, TRUE), Tok(2, FALSE), Tok(4, FALSE), Tok(7, FALSE) >>
RowNoQuota == << Tok(1, FALSE), Tok(0, FALSE), Tok(0, FALSE), Tok(0, FALSE) >>
RowNoGrace == << Tok(1, FALSE), Tok(2, FALSE), Tok(4, FALSE) >>

\* The lines the quota command may print.  A header line is
\* <<"header", ug, name>>, the column line is <<"columns">>, and any other
\* line is <<"row", ls>> with ls = line.split().
QuotaLines ==
    { <<"header", "user", "a">>, <<"header", "group", "g1">>, <<"columns">>,
      <<"row", <<>> >> }
    \cup { <<"row", <<fs>> \o t>> : fs \in {DevA, DevB, DevX},
                                    t \in {RowOver, RowNoQuota, RowNoGrace} }

\* The group database: grp.getgrnam(name).gr_gid.
getgrnam == [g1 |-> 101, g2 |-> 102]

\* The values os.geteuid() may return: root and an ordinary user.
Uids == {0, 1000}

\* -------------------------------------------------------------- state
VARIABLES
    pc,         \* where quota_main is
    exc,        \* the uncaught exception that ended the run, or "none"
    LOGNAME,    \* the environment variable map_fs reads
    lquota,     \* parse_config: lquota['dirs']
    fgroups,    \* parse_config: the [filter] groups
    fss,        \* read_mounts: {device: [mountpoint, fstype]}
    myquota,    \* run_quota: the list of (ug, name, curlist) blocks
    rawrows,    \* per block, the row lines stored into it, split
    ls,         \* run_quota: the tokens of the last header or row line
    myuid,      \* run_quota: os.geteuid(), -1 before it is read
    q_to_del,   \* run_quota: the blocks the group filter removed
    done_mp,    \* quota_main: the set run_quota returned
    done_mp2,   \* nfs_lustre_quota: its done_mp
    mygids,     \* nfs_lustre_quota: os.getgroups()
    gwqueried,  \* the mount points the gateway was asked about
    gwfailed,   \* the mount points whose gateway query failed
    gwquota,    \* nfs_lustre_quota: its myquota
    fi,         \* the position of the running "for fs in ..." loop
    report      \* the rows printed so far

vars == << pc, exc, LOGNAME, lquota, fgroups, fss, myquota, rawrows, ls, myuid,
           q_to_del, done_mp, done_mp2, mygids, gwqueried, gwfailed, gwquota, fi, report >>

Init ==
    /\ pc = "parse_config"
    /\ exc = "none"
    /\ LOGNAME \in LogNames
    /\ lquota = <<>>
    /\ fgroups = <<>>
    /\ fss = <<>>
    /\ myquota = <<>>
    /\ rawrows = <<>>
    /\ ls = <<>>
    /\ myuid = -1
    /\ q_to_del = <<>>
    /\ done_mp = {}
    /\ done_mp2 = {}
    /\ mygids = {}
    /\ gwqueried = {}
    /\ gwfailed = {}
    /\ gwquota = <<>>
    /\ fi = 1
    /\ report = <<>>

\* ------------------------------------------------------- parse_config
\* The configuration file gives the gateway directories and the groups
\* to filter; visit_fs only stats the directories to visit.
parse_config ==
    /\ pc = "parse_config"
    /\ lquota' \in LquotaDirs
    /\ fgroups' \in FilterGroups
    /\ pc' = "read_mounts"
    /\ UNCHANGED << exc, LOGNAME, fss, myquota, rawrows, ls, myuid, q_to_del,
                    done_mp, done_mp2, mygids, gwqueried, gwfailed, gwquota, fi, report >>

\* -------------------------------------------------------- read_mounts
\* One line of /proc/self/mounts: m[ls[0]] = [ls[1], ls[2]].
read_mounts_line ==
    /\ pc = "read_mounts"
    /\ \E line \in MountLines :
          /\ Has(fss, line[1]) \/ Len(fss) < MaxMounts
          /\ fss' = Put(fss, line[1], << line[2], line[3] >>)
    /\ UNCHANGED << pc, exc, LOGNAME, lquota, fgroups, myquota, rawrows, ls,
                    myuid, q_to_del, done_mp, done_mp2, mygids, gwqueried,
                    gwfailed, gwquota, fi, report >>

\* The end of the file: read_mounts returns and run_quota starts.
read_mounts_return ==
    /\ pc = "read_mounts"
    /\ pc' = "run_quota"
    /\ UNCHANGED << exc, LOGNAME, lquota, fgroups, fss, myquota, rawrows, ls,
                    myuid, q_to_del, done_mp, done_mp2, mygids, gwqueried,
                    gwfailed, gwquota, fi, report >>

\* ------------------------------------------------------------- map_fs
\* What map_fs returns when mp[fs] raises.
KeyError == << "KeyError" >>

\* map_fs(fs, mp): the entry of the device made of fs's parent directory
\* and the login name when the table has one, else the entry of fs itself.
map_fs(fs, mp) ==
    LET fschop == dirname(fs)
        fsme == join(fschop, LOGNAME)
    IN  IF Has(mp, fsme) THEN Get(mp, fsme)
        ELSE IF Has(mp, fs) THEN Get(mp, fs)
        ELSE KeyError

\* Whether a value map_fs returned is the raised KeyError.
IsKeyError(v) == Len(v) = 1

\* ---------------------------------------------------------- run_quota
\* BLOCK_SIZE from sys/mount.h
bs == 1024

\* The header and row lines read so far.
LinesRead ==
    LET RECURSIVE Sum(_)
        Sum(i) == IF i = 0 THEN 0 ELSE Len(rawrows[i]) + Sum(i - 1)
    IN  Len(myquota) + Sum(Len(rawrows))

\* The exception int(tok) raises, or "none".
IntExc(tok) == IF tok.star THEN "ValueError" ELSE "none"

\* The exception the statements of a row line raise, in the order Python
\* evaluates them: ls[1] and its int(), then ls[2], ls[3], ls[4] and their
\* int(), then the name curlist (unbound before the first header), then
\* map_fs.  v is line.split().
row_exc(v, quota) ==
    IF Len(v) < 2 THEN "IndexError"
    ELSE IF Len(v) < 3 THEN "IndexError"
    ELSE IF IntExc(v[3]) # "none" THEN IntExc(v[3])
    ELSE IF Len(v) < 4 THEN "IndexError"
    ELSE IF IntExc(v[4]) # "none" THEN IntExc(v[4])
    ELSE IF Len(v) < 5 THEN "IndexError"
    ELSE IF IntExc(v[5]) # "none" THEN IntExc(v[5])
    ELSE IF quota = <<>> THEN "UnboundLocalError"
    ELSE IF IsKeyError(map_fs(v[1], fss)) THEN "KeyError"
    ELSE "none"

\* The entry a row line stores: the key map_fs(ls[0], mp)[0] and the tuple
\* (qb, int(ls[2]) * bs, int(ls[3]) * bs, int(ls[4])).
row_entry(v) ==
    << map_fs(v[1], fss)[1],
       << v[2].n * bs, v[3].n * bs, v[4].n * bs, v[5].n >> >>

\* curlist[key] = value, where curlist is the dict of the last block.
store_row(quota, e) ==
    [quota EXCEPT ![Len(quota)][3] = Put(@, e[1], e[2])]

\* A line with "Disk quotas for": a new block (ug, usrgrpname, {}).
quota_header_line ==
    /\ pc = "run_quota"
    /\ LinesRead < MaxLines
    /\ \E line \in QuotaLines :
          /\ line[1] = "header"
          /\ ls' = << line[2], line[3] >>
          /\ myquota' = Append(myquota, << line[2], line[3], <<>> >>)
          /\ rawrows' = Append(rawrows, <<>>)
    /\ UNCHANGED << pc, exc, LOGNAME, lquota, fgroups, fss, myuid, q_to_del,
                    done_mp, done_mp2, mygids, gwqueried, gwfailed, gwquota, fi, report >>

\* The line of column names: neither branch of the loop body runs.
quota_columns_line ==
    /\ pc = "run_quota"
    /\ LinesRead < MaxLines
    /\ \E line \in QuotaLines : line[1] = "columns"
    /\ UNCHANGED vars

\* Any other line is a row of the current block.
quota_row_line ==
    /\ pc = "run_quota"
    /\ LinesRead < MaxLines
    /\ \E line \in QuotaLines :
          /\ line[1] = "row"
          /\ ls' = line[2]
          /\ IF row_exc(line[2], myquota) # "none"
             THEN /\ pc' = "raised"
                  /\ exc' = row_exc(line[2], myquota)
                  /\ UNCHANGED << myquota, rawrows >>
             ELSE /\ myquota' = store_row(myquota, row_entry(line[2]))
                  /\ rawrows' = [rawrows EXCEPT ![Len(rawrows)] = Append(@, line[2])]
                  /\ UNCHANGED << pc, exc >>
    /\ UNCHANGED << LOGNAME, lquota, fgroups, fss, myuid, q_to_del, done_mp,
                    done_mp2, mygids, gwqueried, gwfailed, gwquota, fi, report >>

\* -------------------------------------------------------- print_quota
\* The columns of one row of print_quota: the label, the mount point and
\* the figures handed to size_to_human; the grace column is empty for a
\* grace of 0 and is made of the deadline otherwise; the percentage is
\* infinite for a quota of 0.
quota_row(ug, k, vals) ==
    [ ugstr |-> << IF ug[1] = "user" THEN "u:" ELSE "g:", ug[2] >>,
      k     |-> k,
      use   |-> vals[1],
      q     |-> vals[2],
      hq    |-> vals[3],
      grace |-> IF vals[4] # 0 THEN << vals[4] >> ELSE <<>>,
      pcent |-> IF vals[2] = 0 THEN [inf |-> TRUE, pct |-> 0]
                ELSE [inf |-> FALSE, pct |-> (vals[1] * 100) \div vals[2]] ]

\* The rows print_quota prints for a block: one for each key of its dict.
block_rows(ug) ==
    [i \in 1..Len(ug[3]) |-> quota_row(ug, ug[3][i][1], ug[3][i][2])]

\* print_quota(quota): the rows of every block, in order.
RECURSIVE print_quota(_)
print_quota(quota) ==
    IF quota = <<>> THEN <<>>
    ELSE block_rows(Head(quota)) \o print_quota(Tail(quota))

\* The rows rs as printed by the step src.
Printed(src, rs) == [i \in 1..Len(rs) |-> [src |-> src, row |-> rs[i]]]

\* ------------------------------------------- run_quota, after the loop
\* done_mp: every key of every block's dict.
done_of(quota) == UNION { KeySet(quota[i][3]) : i \in 1..Len(quota) }

\* to_del with the test of the effective uid left out: root's blocks are
\* filtered too.
to_del_any_uid(quota, uid, groups) ==
    SelectSeq(quota, LAMBDA q : /\ q[1] = "group"
                                /\ \E i \in 1..Len(groups) : groups[i] = q[2])

\* q_to_del: the group blocks of a filtered group, unless the user is root.
to_del(quota, uid, groups) ==
    SelectSeq(quota, LAMBDA q : /\ uid # 0
                                /\ q[1] = "group"
                                /\ \E i \in 1..Len(groups) : groups[i] = q[2])

\* list.remove(q): the list without its first element equal to q.
remove(quota, q) ==
    LET i == CHOOSE j \in 1..Len(quota) :
                 /\ quota[j] = q
                 /\ \A h \in 1..(j - 1) : quota[h] # q
    IN  SubSeq(quota, 1, i - 1) \o SubSeq(quota, i + 1, Len(quota))

\* for q in q_to_del: myquota.remove(q)
RECURSIVE remove_all(_, _)
remove_all(quota, dels) ==
    IF dels = <<>> THEN quota
    ELSE remove_all(remove(quota, Head(dels)), Tail(dels))

\* The blocks without the entries whose mount point os.access refuses.
readable_only(quota, readable) ==
    [i \in 1..Len(quota) |->
        << quota[i][1], quota[i][2], Restrict(quota[i][3], readable) >>]

\* The end of the quota command's output: run_quota collects done_mp,
\* filters the blocks and the unreadable mount points, prints and returns;
\* quota_main calls nfs_lustre_quota.
run_quota_return ==
    /\ pc = "run_quota"
    /\ \E uid \in Uids, readable \in SUBSET done_of(myquota) :
          /\ myuid' = uid
          /\ done_mp' = done_of(myquota)
          /\ q_to_del' = to_del(myquota, uid, fgroups)
          /\ report' = report \o
                Printed("quota",
                        print_quota(readable_only(
                            remove_all(myquota, to_del(myquota, uid, fgroups)),
                            readable)))
    /\ myquota' = <<>>
    /\ rawrows' = <<>>
    /\ ls' = <<>>
    /\ pc' = "lustre_start"
    /\ UNCHANGED << exc, LOGNAME, lquota, fgroups, fss, done_mp2, mygids,
                    gwqueried, gwfailed, gwquota, fi >>

\* --------------------------------------------------- nfs_lustre_quota
\* The group lists os.getgroups() may return.
GidSets == { {101}, {101, 102} }

\* The gateway reports kilobytes.
kb == 1024

\* What os.stat(mp) may do: raise OSError, or give the owning group.
StatResults ==
    { [err |-> TRUE, st_gid |-> 0] } \cup
    { [err |-> FALSE, st_gid |-> g] : g \in {101, 102} }

\* What urlopen(url).read() may do: raise, or return a body, which is a
\* bytes object; lls = body.split() is a list of bytes tokens.
ByteTok(n, star) == [n |-> n, star |-> star, bytes |-> TRUE]

Responses ==
    { [err |-> TRUE, lls |-> <<>>],
      [err |-> FALSE, lls |-> << ByteTok(0, FALSE), ByteTok(3, TRUE) >>],
      [err |-> FALSE, lls |-> << ByteTok(0, FALSE), ByteTok(3, TRUE), ByteTok(2, FALSE),
                                 ByteTok(4, FALSE), ByteTok(7, FALSE) >>] }

\* fgids: the gids of the filtered groups the group database knows.
fgids_of(groups) ==
    { getgrnam[groups[i]] : i \in { j \in 1..Len(groups) : groups[j] \in DOMAIN getgrnam } }

\* Whether the inner loop's test holds: an NFS file system whose mount
\* point contains the gateway directory ld.
gw_match(fstype, ld, mp) == Prefix3(fstype) = <<"n", "f", "s">> /\ Contains(ld, mp)

\* Whether the gateway is asked: the user is in the owning group and the
\* group is not filtered.
gw_ask(gid, gids, fgids) == gid \in gids /\ gid \notin fgids

\* The exception the statements after urlopen raise on the response r:
\* lls[4] needs five tokens, and lls[1].replace('*', '') with str
\* arguments raises TypeError on a bytes token.
gw_exc(r) ==
    IF r.err THEN "URLError"
    ELSE IF Len(r.lls) < 5 THEN "IndexError"
    ELSE IF r.lls[2].bytes THEN "TypeError"
    ELSE "none"

\* The block appended for the response r: ('group', group, {mp: (qb,
\* int(lls[2]) * kb, int(lls[3]) * kb, grace)}), the group named by its gid.
gw_block(gid, mp, r) ==
    << "group", gid,
       << << mp, << r.lls[2].n * kb, r.lls[3].n * kb, r.lls[4].n * kb, r.lls[5].n >> >> >> >>

\* The inner loop "for ld in lquota['dirs']" from its j-th directory on,
\* for the file system of mount point mp and type fstype; st[j] and rs[j]
\* are what os.stat and urlopen do in the j-th round.  a is the state the
\* loop works on.
RECURSIVE lustre_dirs(_, _, _, _, _, _)
lustre_dirs(j, mp, fstype, st, rs, a) ==
    IF j > Len(lquota) \/ a.exc # "none" THEN a
    ELSE IF ~gw_match(fstype, lquota[j], mp)
         THEN lustre_dirs(j + 1, mp, fstype, st, rs, a)
    ELSE LET b == [a EXCEPT !.done = @ \cup {mp}]
         IN  IF st[j].err
             THEN lustre_dirs(j + 1, mp, fstype, st, rs,
                              [b EXCEPT !.failed = @ \cup {mp}])
             ELSE IF ~gw_ask(st[j].st_gid, mygids, fgids_of(fgroups))
             THEN lustre_dirs(j + 1, mp, fstype, st, rs, b)
             ELSE IF gw_exc(rs[j]) # "none"
             THEN [b EXCEPT !.exc = gw_exc(rs[j]),
                            !.queried = @ \cup {mp},
                            !.failed = @ \cup {mp}]
             ELSE lustre_dirs(j + 1, mp, fstype, st, rs,
                              [b EXCEPT !.queried = @ \cup {mp},
                                        !.quota = Append(@, gw_block(st[j].st_gid, mp, rs[j]))])

\* nfs_lustre_quota starts: mygids = os.getgroups(), done_mp = set().
nfs_lustre_start ==
    /\ pc = "lustre_start"
    /\ mygids' \in GidSets
    /\ fi' = 1
    /\ pc' = "lustre"
    /\ UNCHANGED << exc, LOGNAME, lquota, fgroups, fss, myquota, rawrows, ls,
                    myuid, q_to_del, done_mp, done_mp2, gwqueried, gwfailed,
                    gwquota, report >>

\* One round of "for fs in fss".
nfs_lustre_fs ==
    /\ pc = "lustre"
    /\ fi <= Len(fss)
    /\ \E st \in [1..Len(lquota) -> StatResults], rs \in [1..Len(lquota) -> Responses] :
          LET fs == fss[fi][1]
              mp == map_fs(fs, fss)[1]
              a  == lustre_dirs(1, mp, Get(fss, fs)[2], st, rs,
                                [done |-> done_mp2, queried |-> gwqueried,
                                 failed |-> gwfailed, quota |-> gwquota,
                                 exc |-> "none"])
          IN  /\ done_mp2' = a.done
              /\ gwqueried' = a.queried
              /\ gwfailed' = a.failed
              /\ gwquota' = a.quota
              /\ exc' = a.exc
              /\ pc' = IF a.exc # "none" THEN "raised" ELSE pc
              /\ fi' = IF a.exc # "none" THEN fi ELSE fi + 1
    /\ UNCHANGED << LOGNAME, lquota, fgroups, fss, myquota, rawrows, ls, myuid,
                    q_to_del, done_mp, mygids, report >>

\* After the loop: print_quota(myquota), return done_mp; quota_main calls
\* nfs_proj_quota.
nfs_lustre_return ==
    /\ pc = "lustre"
    /\ fi > Len(fss)
    /\ report' = report \o Printed("lustre", print_quota(gwquota))
    /\ fi' = 1
    /\ pc' = "proj"
    /\ UNCHANGED << exc, LOGNAME, lquota, fgroups, fss, myquota, rawrows, ls,
                    myuid, q_to_del, done_mp, done_mp2, mygids, gwqueried,
                    gwfailed, gwquota >>

\* ----------------------------------------------------- nfs_proj_quota
\* quota_main: done_mp.union(done_mp2), the set nfs_proj_quota is given.
done_union == done_mp \cup done_mp2

\* What os.statvfs(mp) may do: raise OSError, or give the block counts.
StatVfs ==
    { [err |-> TRUE, f_blocks |-> 0, f_bfree |-> 0, f_bavail |-> 0, f_frsize |-> 0],
      [err |-> FALSE, f_blocks |-> 8, f_bfree |-> 5, f_bavail |-> 4, f_frsize |-> 512],
      [err |-> FALSE, f_blocks |-> 0, f_bfree |-> 0, f_bavail |-> 0, f_frsize |-> 512] }

\* proj_wanted with the test of the done set left out.
proj_wanted_any(fstype, mp, done) == Prefix3(fstype) = <<"n", "f", "s">>

\* Whether nfs_proj_quota looks at the file system: it is NFS and its
\* mount point is not done.
proj_wanted(fstype, mp, done) == Prefix3(fstype) = <<"n", "f", "s">> /\ mp \notin done

\* The exception the statements after os.access raise, or "none".
proj_exc(svfs) ==
    IF svfs.err THEN "OSError"
    ELSE IF (svfs.f_blocks - svfs.f_bfree) + svfs.f_bavail = 0 THEN "ZeroDivisionError"
    ELSE "none"

\* The row nfs_proj_quota prints: used and the total available to an
\* unprivileged user, in bytes, and the percentage rounded up.
proj_row(mp, svfs) ==
    LET used == svfs.f_blocks - svfs.f_bfree
        nonroot_tot == used + svfs.f_bavail
        u100 == used * 100
    IN  [ ugstr |-> <<>>,
          k |-> mp,
          use |-> used * svfs.f_frsize,
          pcent |-> (u100 \div nonroot_tot) + (IF u100 % nonroot_tot # 0 THEN 1 ELSE 0),
          hq |-> nonroot_tot * svfs.f_frsize ]

\* One round of "for fs in mps".
nfs_proj_fs ==
    /\ pc = "proj"
    /\ fi <= Len(fss)
    /\ \E readable \in BOOLEAN, svfs \in StatVfs :
          LET fs == fss[fi][1]
              mp == map_fs(fs, fss)[1]
          IN  IF ~proj_wanted(Get(fss, fs)[2], mp, done_union) \/ ~readable
              THEN /\ fi' = fi + 1
                   /\ UNCHANGED << pc, exc, report >>
              ELSE IF proj_exc(svfs) # "none"
              THEN /\ pc' = "raised"
                   /\ exc' = proj_exc(svfs)
                   /\ UNCHANGED << fi, report >>
              ELSE /\ report' = report \o Printed("proj", << proj_row(mp, svfs) >>)
                   /\ fi' = fi + 1
                   /\ UNCHANGED << pc, exc >>
    /\ UNCHANGED << LOGNAME, lquota, fgroups, fss, myquota, rawrows, ls, myuid,
                    q_to_del, done_mp, done_mp2, mygids, gwqueried, gwfailed,
                    gwquota >>

\* After the loop nfs_proj_quota and quota_main return.
nfs_proj_return ==
    /\ pc = "proj"
    /\ fi > Len(fss)
    /\ pc' = "done"
    /\ UNCHANGED << exc, LOGNAME, lquota, fgroups, fss, myquota, rawrows, ls,
                    myuid, q_to_del, done_mp, done_mp2, mygids, gwqueried,
                    gwfailed, gwquota, fi, report >>

\* ------------------------------------------------------ specification
Next ==
    \/ parse_config
    \/ read_mounts_line
    \/ read_mounts_return
    \/ quota_header_line
    \/ quota_columns_line
    \/ quota_row_line
    \/ run_quota_return
    \/ nfs_lustre_start
    \/ nfs_lustre_fs
    \/ nfs_lustre_return
    \/ nfs_proj_fs
    \/ nfs_proj_return

Spec == Init /\ [][Next]_vars

\* ============================================================== claims
\* The rows of the report printed by the step src.
RowsOf(src) == { i \in 1..Len(report) : report[i].src = src }

\* The device map_fs tries first for fs.
Candidate(fs) == join(dirname(fs), LOGNAME)

\* C1: every mount point for which the project-quota fallback printed a
\* row is in neither the set run_quota returned nor the set
\* nfs_lustre_quota returned.
C1_FallbackDisjoint ==
    \A i \in RowsOf("proj") :
        report[i].row.k \notin done_mp /\ report[i].row.k \notin done_mp2

\* C1 witness: the run ended with a fallback row while the primary step and
\* the gateway step had each covered a mount point.
C1_Witness ==
    /\ pc = "done"
    /\ RowsOf("proj") # {}
    /\ done_mp # {}
    /\ done_mp2 # {}

\* C2: the gateway is asked about, and a gateway row is printed for, only
\* mount points that the primary step did not put in its done set.
C2_GatewayOnlyUndone ==
    /\ gwqueried \cap done_mp = {}
    /\ \A i \in RowsOf("lustre") : report[i].row.k \notin done_mp

\* The exceptions a gateway query raises.
GatewayExcs == {"URLError", "IndexError", "TypeError"}

\* C3: a failed gateway query (stat, request or body) does not end the
\* gateway step and leaves the mount point out of the gateway's done set,
\* so that the fallback is offered it.
C3_GatewayFailureDeferred ==
    gwfailed # {} =>
        /\ ~(pc = "raised" /\ exc \in GatewayExcs)
        /\ gwfailed \cap done_mp2 = {}

\* C4: for every device d of the mount table, map_fs(d, T) is the mount
\* point of T's entry for d.
C4_DirectMatchFirst ==
    pc \notin {"parse_config", "read_mounts"} =>
        \A i \in 1..Len(fss) : map_fs(fss[i][1], fss)[1] = fss[i][2][1]

\* C5: a row whose file system is no device of the mount table, and whose
\* candidate is none either, raises nothing and is stored in the current
\* block under the raw identifier.
C5_ResolveNeverFails ==
    (/\ Len(ls) = 5
     /\ myquota # <<>>
     /\ ~Has(fss, ls[1])
     /\ ~Has(fss, Candidate(ls[1])))
    => /\ exc = "none"
       /\ Has(myquota[Len(myquota)][3], ls[1])

\* The row lines of block i that set no quota (a soft limit of 0 or 1).
NoQuotaRows(i) == { j \in 1..Len(rawrows[i]) : rawrows[i][j][3].n * bs < 2 }

\* Whether the row lines of block i name pairwise distinct file systems.
DistinctRows(i) ==
    \A j, h \in 1..Len(rawrows[i]) : j # h => rawrows[i][j][1] # rawrows[i][h][1]

\* C6: while the quota output is parsed, every block whose row lines name
\* distinct file systems holds one entry for each row line, the rows that
\* set no quota possibly left out.
C6_RowCount ==
    pc = "run_quota" =>
        \A i \in 1..Len(myquota) :
            DistinctRows(i) =>
                /\ Len(myquota[i][3]) <= Len(rawrows[i])
                /\ Len(myquota[i][3]) >= Len(rawrows[i]) - Cardinality(NoQuotaRows(i))

\* C7: a row line with a file system and three numbers but no grace token,
\* read after a header and naming a device the table resolves, raises
\* nothing and is stored with a grace of 0.
C7_NoGraceRow ==
    (/\ Len(ls) = 4
     /\ myquota # <<>>
     /\ ~IsKeyError(map_fs(ls[1], fss)))
    => /\ exc = "none"
       /\ Has(myquota[Len(myquota)][3], map_fs(ls[1], fss)[1])
       /\ Get(myquota[Len(myquota)][3], map_fs(ls[1], fss)[1])[4] = 0

\* C8: every row printed for a block of the primary or the gateway step has
\* a soft limit of at least 2.
C8_NoQuotaSuppressed ==
    \A i \in RowsOf("quota") \cup RowsOf("lustre") : report[i].row.q >= 2

\* Whether the group name g is in the configured filter list.
Filtered(g) == \E i \in 1..Len(fgroups) : fgroups[i] = g

C10_FallbackOncePerMount ==
    \A i, j \in RowsOf("proj") : i # j => report[i].row.k # report[j].row.k

====
